---- MODULE Spec2Model ----
(***************************************************************************)
(* Model of src/app.py: the football prediction pipeline behind the "/"    *)
(* route.  Match Filter (get_team_matches, get_relevant_matches), Team     *)
(* Stat Aggregator (get_team_stats), Goal Intensity Estimator              *)
(* (estimate_goal_intensities), Score Distribution Model (poisson_pmf,     *)
(* score_matrix) and Market Predictor (probs_from_matrix,                  *)
(* most_likely_exact_score, predict_markets), and the index handler.       *)
(*                                                                         *)
(* Numbers.  Python floats are modelled in fixed point:                    *)
(*   - team statistics and goal intensities in thousandths (round(x, 3)),  *)
(*   - market probabilities in ten-thousandths (round(x, 4)),              *)
(*   - the "goals" figure in hundredths (round(x, 2)),                     *)
(*   - matrix cells as integer masses out of the unit of their matrix.     *)
(* round() is Python's round-half-to-even.                                 *)
(***************************************************************************)
EXTENDS Integers, Sequences, FiniteSets, TLC

\* ------------------------------------------------------------------------
\* Bounds of the model
\* ------------------------------------------------------------------------
\* number of fixtures the data source knows in the Match Filter runs
FilterMatches == 6
\* number of fixtures the data source knows in the index handler runs
PipelineMatches == 2

\* ------------------------------------------------------------------------
\* Values
\* ------------------------------------------------------------------------
\* Python's None for a missing goal field of a match record
None == -1

\* The static name -> identifier table, restricted to three of its entries
TEAM_IDS ==
    ("Arsenal" :> 57) @@ ("Chelsea" :> 61) @@ ("Liverpool" :> 64)

TeamNames == DOMAIN TEAM_IDS
KnownTeamIds == {TEAM_IDS[n] : n \in TeamNames}

\* home_matches[:5], away_matches[:5]
RecentCount == 5
\* sorted(...)[:20]
FetchLimit == 20

Min(a, b) == IF a <= b THEN a ELSE b
Max(a, b) == IF a >= b THEN a ELSE b

\* Python's s[:n]
Take(s, n) == SubSeq(s, 1, Min(n, Len(s)))

\* A match record of the data source (the JSON object, flattened)
MkMatch(id, home, away, comp, ftH, ftA, htH, htA) ==
    [id |-> id, homeTeam |-> home, awayTeam |-> away, competition |-> comp,
     utcDate |-> id, ftHome |-> ftH, ftAway |-> ftA, htHome |-> htH, htAway |-> htA]

\* ------------------------------------------------------------------------
\* Match Filter
\* ------------------------------------------------------------------------
\* What GET /teams/{id}/matches answers: the fixtures of the source the team
\* played in, oldest first.
RECURSIVE ApiTeamMatches(_, _, _)
ApiTeamMatches(db, team_id, i) ==
    IF i > Len(db) THEN <<>>
    ELSE IF team_id \in {db[i].homeTeam, db[i].awayTeam}
         THEN <<db[i]>> \o ApiTeamMatches(db, team_id, i + 1)
         ELSE ApiTeamMatches(db, team_id, i + 1)

\* the competition filter of get_team_matches
RECURSIVE FilterCompetition(_)
FilterCompetition(ms) ==
    IF ms = <<>> THEN <<>>
    ELSE IF Head(ms).competition \in {"LEAGUE", "CUP"}
         THEN <<Head(ms)>> \o FilterCompetition(Tail(ms))
         ELSE FilterCompetition(Tail(ms))

\* sorted(filtered, key=utcDate, reverse=True): a stable sort, newest first
RECURSIVE InsertByDateDesc(_, _)
InsertByDateDesc(s, m) ==
    IF s = <<>> THEN <<m>>
    ELSE IF Head(s).utcDate >= m.utcDate
         THEN <<Head(s)>> \o InsertByDateDesc(Tail(s), m)
         ELSE <<m>> \o s

RECURSIVE SortByDateDesc(_, _)
SortByDateDesc(ms, acc) ==
    IF ms = <<>> THEN acc
    ELSE SortByDateDesc(Tail(ms), InsertByDateDesc(acc, Head(ms)))

\* get_team_matches: ok is whether safe_get_json returned the payload
GetTeamMatches(ok, db, team_id) ==
    IF ~ok THEN <<>>
    ELSE Take(SortByDateDesc(FilterCompetition(ApiTeamMatches(db, team_id, 1)), <<>>),
              FetchLimit)

\* one comprehension of the head-to-head selection
RECURSIVE SelectDirection(_, _, _)
SelectDirection(ms, h, a) ==
    IF ms = <<>> THEN <<>>
    ELSE IF Head(ms).homeTeam = h /\ Head(ms).awayTeam = a
         THEN <<Head(ms)>> \o SelectDirection(Tail(ms), h, a)
         ELSE SelectDirection(Tail(ms), h, a)

\* h2h = [home v away] + [away v home], both taken from home_matches
HeadToHead(home_matches, home_id, away_id) ==
    SelectDirection(home_matches, home_id, away_id)
        \o SelectDirection(home_matches, away_id, home_id)

\* variant of the test below: a loop that never skips a record
DedupStepNeverSkips(m, seen) == FALSE

\* `if mid in seen: continue`
DedupStepSkipsSeen(m, seen) == m.id \in seen

\* for m in ...: if mid in seen: continue; seen.add(mid); unique.append(m)
RECURSIVE DedupLoop(_, _, _)
DedupLoop(cand, seen, unique) ==
    IF cand = <<>> THEN unique
    ELSE LET m == Head(cand) IN
         IF DedupStepSkipsSeen(m, seen)
         THEN DedupLoop(Tail(cand), seen, unique)
         ELSE DedupLoop(Tail(cand), seen \cup {m.id}, Append(unique, m))

\* the sequence the loop of get_relevant_matches walks
FilterCandidates(hm, am, home_id, away_id) ==
    HeadToHead(hm, home_id, away_id) \o Take(hm, RecentCount) \o Take(am, RecentCount)

\* get_relevant_matches, given the two fetched lists
RelevantFrom(hm, am, home_id, away_id) ==
    DedupLoop(FilterCandidates(hm, am, home_id, away_id), {}, <<>>)

\* ------------------------------------------------------------------------
\* Fixed-point arithmetic
\* ------------------------------------------------------------------------
\* <<floor(a * 10^k / t), remainder>> by decimal long division (a >= 0, t > 0)
RECURSIVE DivDigits(_, _, _)
DivDigits(a, t, k) ==
    IF k = 0 THEN <<a \div t, a % t>>
    ELSE LET prev == DivDigits(a, t, k - 1) IN
         <<prev[1] * 10 + ((prev[2] * 10) \div t), (prev[2] * 10) % t>>

\* round(a / t, k) in units of 10^-k, Python's round-half-to-even
RoundScaled(a, t, k) ==
    LET qr == DivDigits(a, t, k)
        q == qr[1]
        r == qr[2]
    IN  IF 2 * r < t THEN q
        ELSE IF 2 * r > t THEN q + 1
        ELSE IF q % 2 = 0 THEN q ELSE q + 1

\* ------------------------------------------------------------------------
\* Team Stat Aggregator
\* ------------------------------------------------------------------------
\* `x or 0` on a goal field
OrZero(x) == IF x = None THEN 0 ELSE x

\* the early return for an empty list, in thousandths
ZeroStats ==
    [goals_avg_scored |-> 0, goals_avg_conceded |-> 0, half_time_win_rate |-> 0,
     second_half_win_rate |-> 0, both_teams_score_rate |-> 0]

\* the accumulators before the loop
ZeroAcc ==
    [goals_scored |-> 0, goals_conceded |-> 0, half_time_wins |-> 0,
     second_half_wins |-> 0, both_teams_score |-> 0, games |-> 0]

\* the second-half goals of the two sides of a match
HomeSecond(match) == Max(0, OrZero(match.ftHome) - OrZero(match.htHome))
AwaySecond(match) == Max(0, OrZero(match.ftAway) - OrZero(match.htAway))

\* variant of the away-side increment below: the comparison of the home side
AwaySideSecondHalfWinFlipped(match) ==
    IF HomeSecond(match) > AwaySecond(match) THEN 1 ELSE 0

\* the second-half-win increment of one match, by the side the team was on
AwaySideSecondHalfWin(match) ==
    IF AwaySecond(match) > HomeSecond(match) THEN 1 ELSE 0

HomeSideSecondHalfWin(match) ==
    IF HomeSecond(match) > AwaySecond(match) THEN 1 ELSE 0

\* the accumulators after a match the team played in
StatsUpdate(acc, match, team_id) ==
    LET home_goals == OrZero(match.ftHome)
        away_goals == OrZero(match.ftAway)
        home_half  == OrZero(match.htHome)
        away_half  == OrZero(match.htAway)
        bts        == IF home_goals > 0 /\ away_goals > 0 THEN 1 ELSE 0
    IN  IF match.homeTeam = team_id
        THEN [goals_scored     |-> acc.goals_scored + home_goals,
              goals_conceded   |-> acc.goals_conceded + away_goals,
              half_time_wins   |-> acc.half_time_wins
                                     + (IF home_half > away_half THEN 1 ELSE 0),
              second_half_wins |-> acc.second_half_wins + HomeSideSecondHalfWin(match),
              both_teams_score |-> acc.both_teams_score + bts,
              games            |-> acc.games + 1]
        ELSE [goals_scored     |-> acc.goals_scored + away_goals,
              goals_conceded   |-> acc.goals_conceded + home_goals,
              half_time_wins   |-> acc.half_time_wins
                                     + (IF away_half > home_half THEN 1 ELSE 0),
              second_half_wins |-> acc.second_half_wins + AwaySideSecondHalfWin(match),
              both_teams_score |-> acc.both_teams_score + bts,
              games            |-> acc.games + 1]

\* variant of the loop body below: both-teams-scored counted before `continue`
StatsBodyCountsBtsFirst(acc, match, team_id) ==
    IF team_id \notin {match.homeTeam, match.awayTeam}
    THEN [acc EXCEPT !.both_teams_score =
             @ + (IF OrZero(match.ftHome) > 0 /\ OrZero(match.ftAway) > 0 THEN 1 ELSE 0)]
    ELSE StatsUpdate(acc, match, team_id)

\* one iteration of the loop of get_team_stats: `continue` for a match the team
\* did not play in, before anything is counted
StatsBody(acc, match, team_id) ==
    IF team_id \notin {match.homeTeam, match.awayTeam}
    THEN acc
    ELSE StatsUpdate(acc, match, team_id)

\* if games == 0: games = 1, then the five rounded quotients
FinishStats(acc) ==
    LET games == IF acc.games = 0 THEN 1 ELSE acc.games IN
    [goals_avg_scored      |-> RoundScaled(acc.goals_scored, games, 3),
     goals_avg_conceded    |-> RoundScaled(acc.goals_conceded, games, 3),
     half_time_win_rate    |-> RoundScaled(acc.half_time_wins, games, 3),
     second_half_win_rate  |-> RoundScaled(acc.second_half_wins, games, 3),
     both_teams_score_rate |-> RoundScaled(acc.both_teams_score, games, 3)]

RECURSIVE StatsLoop(_, _, _)
StatsLoop(ms, team_id, acc) ==
    IF ms = <<>> THEN acc
    ELSE StatsLoop(Tail(ms), team_id, StatsBody(acc, Head(ms), team_id))

\* get_team_stats on a whole list
GetTeamStats(ms, team_id) ==
    IF ms = <<>> THEN ZeroStats ELSE FinishStats(StatsLoop(ms, team_id, ZeroAcc))

\* ------------------------------------------------------------------------
\* Goal Intensity Estimator
\* ------------------------------------------------------------------------
\* the home-advantage term 0.15, the clamp bounds 0.1 and 3.5, in thousandths
HomeAdvantage == 150
LambdaMin == 100
LambdaMax == 3500

\* variant of the clamp below: the lower bound alone
ClampLambdaNoUpper(x) == Max(LambdaMin, x)

\* max(0.1, min(3.5, x))
ClampLambda(x) == Max(LambdaMin, Min(LambdaMax, x))

\* estimate_goal_intensities for two known names: <<lambda_home, lambda_away>>
EstimateGoalIntensities(home_name, away_name, ms) ==
    LET home_stats == GetTeamStats(ms, TEAM_IDS[home_name])
        away_stats == GetTeamStats(ms, TEAM_IDS[away_name])
    IN  <<ClampLambda(home_stats.goals_avg_scored + HomeAdvantage),
          ClampLambda(away_stats.goals_avg_scored)>>

\* ------------------------------------------------------------------------
\* Score Distribution Model
\* ------------------------------------------------------------------------
\* Fixed-point precision of poisson_pmf: one unit of a pmf value is 1/PmfScale
PmfScale == 10000
\* score_matrix(..., max_goals=8)
DefaultMaxGoals == 8

\* lmbda ** k / factorial(k) in units of 1/PmfScale, lmbda in thousandths
RECURSIVE PowOverFact(_, _)
PowOverFact(k, lm) ==
    IF k = 0 THEN PmfScale ELSE (PowOverFact(k - 1, lm) * lm) \div (1000 * k)

\* 1 / math.exp(-lmbda) in units of 1/PmfScale: the exponential series
RECURSIVE ExpSeries(_, _, _)
ExpSeries(n, term, lm) ==
    IF term = 0 THEN 0
    ELSE term + ExpSeries(n + 1, (term * lm) \div (1000 * (n + 1)), lm)

\* poisson_pmf(k, lmbda), given 1 / math.exp(-lmbda); the OverflowError branch
\* needs k far above 8
PmfWith(k, lm, exp_scaled) == (PowOverFact(k, lm) * PmfScale) \div exp_scaled

PoissonPmf(k, lm) == PmfWith(k, lm, ExpSeries(0, PmfScale, lm))

RowWith(lm, goal_bound, exp_scaled) ==
    [mass |-> [i \in 1..(goal_bound + 1) |-> PmfWith(i - 1, lm, exp_scaled)],
     unit |-> PmfScale]

\* the values pi (or pj) of score_matrix for i in range(0, max_goals + 1)
PoissonRow(lm, goal_bound) == RowWith(lm, goal_bound, ExpSeries(0, PmfScale, lm))

\* the two loops of score_matrix: cell (i, j) = pi * pj, rows[i + 1][j + 1]
MatrixRows(rmass, cmass) ==
    [i \in DOMAIN rmass |-> [j \in DOMAIN cmass |-> rmass[i] * cmass[j]]]

ScoreMatrixOf(rpmf, cpmf) ==
    [rows |-> MatrixRows(rpmf.mass, cpmf.mass), unit |-> rpmf.unit * cpmf.unit]

\* score_matrix(lambda_home, lambda_away, max_goals)
ScoreMatrix(lh, la, goal_bound) ==
    ScoreMatrixOf(PoissonRow(lh, goal_bound), PoissonRow(la, goal_bound))

\* ------------------------------------------------------------------------
\* Market Predictor
\* ------------------------------------------------------------------------
RECURSIVE SeqSum(_)
SeqSum(s) == IF s = <<>> THEN 0 ELSE Head(s) + SeqSum(Tail(s))

\* which cells each of the five sums of probs_from_matrix takes
InSum(name, i, j) ==
    CASE name = "home" -> i > j
      [] name = "draw" -> i = j
      [] name = "away" -> i < j
      [] name = "over" -> i + j > 2
      [] name = "bts"  -> i > 0 /\ j > 0

\* for j, p in enumerate(row): what row i adds to the sum, from column j on
RECURSIVE RowScan(_, _, _, _)
RowScan(row, i, j, name) ==
    IF j >= Len(row) THEN 0
    ELSE (IF InSum(name, i, j) THEN row[j + 1] ELSE 0) + RowScan(row, i, j + 1, name)

\* for i, row in enumerate(matrix): the sum, from row i on
RECURSIVE MassScan(_, _, _)
MassScan(rows, i, name) ==
    IF i >= Len(rows) THEN 0
    ELSE RowScan(rows[i + 1], i, 0, name) + MassScan(rows, i + 1, name)

\* the five sums of probs_from_matrix, in cell units
HomeMass(rows) == MassScan(rows, 0, "home")
DrawMass(rows) == MassScan(rows, 0, "draw")
AwayMass(rows) == MassScan(rows, 0, "away")
OverMass(rows) == MassScan(rows, 0, "over")
BtsMass(rows) == MassScan(rows, 0, "bts")

\* p_home, p_draw, p_away divided by their total when it is positive, and the
\* two sums that are left as they are; all rounded to 4 decimals
RoundedProbs(p_home, p_draw, p_away, p_over25, p_bts, unit) ==
    LET total == p_home + p_draw + p_away
        den   == IF total > 0 THEN total ELSE unit
    IN  ("1" :> RoundScaled(p_home, den, 4))
        @@ ("X" :> RoundScaled(p_draw, den, 4))
        @@ ("2" :> RoundScaled(p_away, den, 4))
        @@ ("OVER_2_5" :> RoundScaled(p_over25, unit, 4))
        @@ ("BTS" :> RoundScaled(p_bts, unit, 4))

\* probs_from_matrix, values in ten-thousandths
ProbsFromMatrix(matrix) ==
    RoundedProbs(HomeMass(matrix.rows), DrawMass(matrix.rows), AwayMass(matrix.rows),
                 OverMass(matrix.rows), BtsMass(matrix.rows), matrix.unit)

\* most_likely_exact_score: the inner loop over one row; best is <<i, j, p>>
RECURSIVE ExactScoreRow(_, _, _, _)
ExactScoreRow(row, i, j, best) ==
    IF j >= Len(row) THEN best
    ELSE IF row[j + 1] > best[3]
         THEN ExactScoreRow(row, i, j + 1, <<i, j, row[j + 1]>>)
         ELSE ExactScoreRow(row, i, j + 1, best)

RECURSIVE ExactScoreScan(_, _, _)
ExactScoreScan(rows, i, best) ==
    IF i >= Len(rows) THEN best
    ELSE ExactScoreScan(rows, i + 1, ExactScoreRow(rows[i + 1], i, 0, best))

\* best_i, best_j start at 0 and best_p at -1.0; the f-string as <<i, j>>
MostLikelyExactScore(m) ==
    LET best == ExactScoreScan(m.rows, 0, <<0, 0, -1>>) IN <<best[1], best[2]>>

\* variant of the comparison below: a later pair also replaces an equal one
MaxReplacesOnTie(cand, best) == cand[2] >= best[2]

\* Python's max(pairs, key=second): a later pair replaces the best only if greater
MaxReplaces(cand, best) == cand[2] > best[2]

RECURSIVE PyMaxScan(_, _, _)
PyMaxScan(pairs, k, best) ==
    IF k > Len(pairs) THEN best
    ELSE IF MaxReplaces(pairs[k], best)
         THEN PyMaxScan(pairs, k + 1, pairs[k])
         ELSE PyMaxScan(pairs, k + 1, best)

PyMax(pairs) == PyMaxScan(pairs, 2, pairs[1])[1]

\* variant of the pairs below: the sums of X2 and 12 exchanged
DoubleChancePairsMislabelled(p) ==
    << <<"1X", p["1"] + p["X"]>>, <<"X2", p["1"] + p["2"]>>, <<"12", p["X"] + p["2"]>> >>

\* proba_1x, proba_x2, proba_12 with their labels
DoubleChancePairs(p) ==
    << <<"1X", p["1"] + p["X"]>>, <<"X2", p["X"] + p["2"]>>, <<"12", p["1"] + p["2"]>> >>

\* sum(i * sum(row) for i, row in enumerate(matrix)), in cell units
GoalsMass(rows) ==
    SeqSum([i \in DOMAIN rows |-> (i - 1) * SeqSum(rows[i])])

\* the dictionary predict_markets returns, from the matrix and p
MarketsFrom(matrix, p) ==
    [result |-> PyMax(<< <<"1", p["1"]>>, <<"X", p["X"]>>, <<"2", p["2"]>> >>),
     double_chance |-> PyMax(DoubleChancePairs(p)),
     goals |-> RoundScaled(GoalsMass(matrix.rows), matrix.unit, 2),
     exact_score |-> MostLikelyExactScore(matrix),
     half_winner |-> IF p["1"] > Max(p["X"], p["2"]) THEN "1"
                     ELSE IF p["2"] > Max(p["1"], p["X"]) THEN "2" ELSE "X",
     over_under |-> IF p["OVER_2_5"] >= 5000 THEN "Plus de 2.5 buts"
                    ELSE "Moins de 2.5 buts",
     both_teams_score |-> IF p["BTS"] >= 5000 THEN "Oui" ELSE "Non",
     probabilities |-> p]

\* ------------------------------------------------------------------------
\* State
\* ------------------------------------------------------------------------
VARIABLES
    \* the index handler and the Match Filter
    pc,                  \* position: "idle", "rendered", "filter_call", "fetched", "filtered"
    api_token,           \* whether FOOTBALL_DATA_API_TOKEN is set
    api_db,              \* the finished fixtures the data source holds
    method,              \* request.method
    home_team, away_team,        \* the form fields ("" when missing)
    home_logo, away_logo,
    home_matches, away_matches,  \* get_team_matches of the two teams
    historical_matches,          \* get_relevant_matches
    home_stats, away_stats,      \* <<>> for None, <<stats>> otherwise
    predictions,                 \* [kind |-> "none" | "no_data" | "populated", value]
    error,
    \* one call of get_team_stats
    st_pc,               \* "call", "body", "loop", "returned", "off"
    team_id,
    length,              \* len(matches)
    idx,                 \* number of records the loop has taken
    match,               \* the record the loop holds
    acc,                 \* the six accumulators
    stats,               \* the returned dictionary, <<>> before the return
    appeared,            \* history: how many of the records taken involve team_id
    \* one call of estimate_goal_intensities
    in_pc,               \* "call", "returned", "KeyError", "off"
    matches,
    est_home, est_away,
    lambdas,
    \* one run of score_matrix, probs_from_matrix and the rest of predict_markets
    mk_pc,               \* "call", "matrix", "probs", "predicted", "off"
    max_goals,
    row_pmf, col_pmf,    \* the values poisson_pmf gives for the two sides
    matrix,
    p,
    market

pipeVars == <<pc, api_token, api_db, method, home_team, away_team, home_logo, away_logo,
              home_matches, away_matches, historical_matches, home_stats, away_stats,
              predictions, error>>
statVars == <<st_pc, team_id, length, idx, match, acc, stats, appeared>>
intVars  == <<in_pc, matches, est_home, est_away, lambdas>>
mktVars  == <<mk_pc, max_goals, row_pmf, col_pmf, matrix, p, market>>
vars     == <<pipeVars, statVars, intVars, mktVars>>

NoPrediction == [kind |-> "none", value |-> <<>>]
NoMatch == MkMatch(0, 0, 0, "", None, None, None, None)
EmptyMatrix == [rows |-> <<>>, unit |-> 1]

\* the parts of the state a specification does not use
PipeOff ==
    /\ pc = "off" /\ api_token = FALSE /\ api_db = <<>> /\ method = ""
    /\ home_team = "" /\ away_team = "" /\ home_logo = "" /\ away_logo = ""
    /\ home_matches = <<>> /\ away_matches = <<>> /\ historical_matches = <<>>
    /\ home_stats = <<>> /\ away_stats = <<>> /\ predictions = NoPrediction
    /\ error = ""
StatOff ==
    /\ st_pc = "off" /\ team_id = 0 /\ length = 0 /\ idx = 0 /\ match = NoMatch
    /\ acc = ZeroAcc /\ stats = <<>> /\ appeared = 0
IntOff ==
    /\ in_pc = "off" /\ matches = <<>> /\ est_home = "" /\ est_away = "" /\ lambdas = <<>>
MktOff ==
    /\ mk_pc = "off" /\ max_goals = 0 /\ row_pmf = <<>> /\ col_pmf = <<>>
    /\ matrix = EmptyMatrix /\ p = <<>> /\ market = <<>>

\* ------------------------------------------------------------------------
\* The index handler
\* ------------------------------------------------------------------------
\* the fixtures a data source of the handler runs can hold
PipelineRecords(id) ==
    {MkMatch(id, pr[1], pr[2], v[1], v[2], v[3], v[4], v[5]) :
        pr \in {q \in KnownTeamIds \X KnownTeamIds : q[1] # q[2]},
        v \in {<<"LEAGUE", 2, 1, 0, 0>>, <<"FRIENDLY", None, None, None, None>>}}

PipelineDbs ==
    {db \in [1..PipelineMatches -> UNION {PipelineRecords(i) : i \in 1..PipelineMatches}] :
        \A i \in 1..PipelineMatches : db[i].id = i}

\* what the form can send for a team
FormNames == {"", "Arsenal", "Chelsea", "Unknown FC"}

\* get_relevant_matches: the two fetches, then the selection
GetRelevantMatches(okH, okA, db, home_name, away_name) ==
    RelevantFrom(GetTeamMatches(okH, db, TEAM_IDS[home_name]),
                 GetTeamMatches(okA, db, TEAM_IDS[away_name]),
                 TEAM_IDS[home_name], TEAM_IDS[away_name])

\* variant of the test below: a handler that always predicts
HasHistoryAlways(hist) == TRUE

\* `if historical_matches:`
HasHistory(hist) == hist # <<>>

\* error as it stands before the POST branch
TokenError ==
    IF api_token
    THEN ""
    ELSE "Le jeton API n'est pas configure. Configurez FOOTBALL_DATA_API_TOKEN dans .env."

Init ==
    /\ pc = "idle"
    /\ api_token \in BOOLEAN
    /\ api_db \in PipelineDbs
    /\ method = "" /\ home_team = "" /\ away_team = ""
    /\ home_logo = "" /\ away_logo = ""
    /\ home_matches = <<>> /\ away_matches = <<>> /\ historical_matches = <<>>
    /\ home_stats = <<>> /\ away_stats = <<>>
    /\ predictions = NoPrediction
    /\ error = ""
    /\ StatOff /\ IntOff /\ MktOff

\* GET /: the form alone
IndexGet ==
    /\ pc = "idle"
    /\ pc' = "rendered"
    /\ method' = "GET"
    /\ error' = TokenError
    /\ UNCHANGED <<api_token, api_db, home_team, away_team, home_logo, away_logo,
                   home_matches, away_matches, historical_matches, home_stats,
                   away_stats, predictions>>
    /\ UNCHANGED <<statVars, intVars, mktVars>>

\* POST / with a field missing, the same team twice, or a name outside TEAM_IDS
IndexPostRejected ==
    /\ pc = "idle"
    /\ \E h \in FormNames, a \in FormNames :
        /\ ~(h # "" /\ a # "" /\ h # a /\ h \in TeamNames /\ a \in TeamNames)
        /\ home_team' = h
        /\ away_team' = a
        /\ error' = IF h = "" \/ a = "" THEN "Veuillez selectionner deux equipes."
                    ELSE IF h = a THEN "Veuillez selectionner deux equipes differentes."
                    ELSE "Equipe inconnue."
    /\ pc' = "rendered"
    /\ method' = "POST"
    /\ UNCHANGED <<api_token, api_db, home_logo, away_logo, home_matches, away_matches,
                   historical_matches, home_stats, away_stats, predictions>>
    /\ UNCHANGED <<statVars, intVars, mktVars>>

\* POST / with two distinct names of TEAM_IDS: the logos, get_relevant_matches,
\* and the branch on its result
IndexPostKnown ==
    /\ pc = "idle"
    /\ \E h \in FormNames, a \in FormNames, okH \in BOOLEAN, okA \in BOOLEAN :
        /\ h # "" /\ a # "" /\ h # a /\ h \in TeamNames /\ a \in TeamNames
        /\ home_team' = h
        /\ away_team' = a
        /\ home_matches' = GetTeamMatches(okH, api_db, TEAM_IDS[h])
        /\ away_matches' = GetTeamMatches(okA, api_db, TEAM_IDS[a])
        /\ historical_matches' = GetRelevantMatches(okH, okA, api_db, h, a)
    /\ \E hl \in {"", "crest"}, al \in {"", "crest"} :
        /\ home_logo' = hl
        /\ away_logo' = al
    /\ IF HasHistory(historical_matches')
       THEN /\ pc' = "stats"
            /\ predictions' = predictions
       ELSE /\ pc' = "rendered"
            /\ predictions' = [kind |-> "no_data", value |-> <<>>]
    /\ method' = "POST"
    /\ error' = TokenError
    /\ UNCHANGED <<api_token, api_db, home_stats, away_stats>>
    /\ UNCHANGED <<statVars, intVars, mktVars>>

\* home_stats = get_team_stats(...); away_stats = get_team_stats(...)
IndexStats ==
    /\ pc = "stats"
    /\ home_stats' = <<GetTeamStats(historical_matches, TEAM_IDS[home_team])>>
    /\ away_stats' = <<GetTeamStats(historical_matches, TEAM_IDS[away_team])>>
    /\ pc' = "predict"
    /\ UNCHANGED <<api_token, api_db, method, home_team, away_team, home_logo, away_logo,
                   home_matches, away_matches, historical_matches, predictions, error>>
    /\ UNCHANGED <<statVars, intVars, mktVars>>

\* predict_markets: lambda_home, lambda_away = estimate_goal_intensities(...)
PredictEstimate ==
    /\ pc = "predict"
    /\ lambdas' = EstimateGoalIntensities(home_team, away_team, historical_matches)
    /\ pc' = "score_matrix"
    /\ UNCHANGED <<api_token, api_db, method, home_team, away_team, home_logo, away_logo,
                   home_matches, away_matches, historical_matches, home_stats,
                   away_stats, predictions, error>>
    /\ UNCHANGED <<in_pc, matches, est_home, est_away>>
    /\ UNCHANGED <<statVars, mktVars>>

\* predict_markets: matrix = score_matrix(lambda_home, lambda_away)
PredictScoreMatrix ==
    /\ pc = "score_matrix"
    /\ max_goals' = DefaultMaxGoals
    /\ row_pmf' = PoissonRow(lambdas[1], DefaultMaxGoals)
    /\ col_pmf' = PoissonRow(lambdas[2], DefaultMaxGoals)
    /\ matrix' = ScoreMatrixOf(row_pmf', col_pmf')
    /\ mk_pc' = "matrix"
    /\ pc' = "markets"
    /\ UNCHANGED <<api_token, api_db, method, home_team, away_team, home_logo, away_logo,
                   home_matches, away_matches, historical_matches, home_stats,
                   away_stats, predictions, error>>
    /\ UNCHANGED <<p, market>>
    /\ UNCHANGED <<statVars, intVars>>

\* p = probs_from_matrix(matrix)
ComputeProbs ==
    /\ mk_pc = "matrix"
    /\ p' = ProbsFromMatrix(matrix)
    /\ mk_pc' = "probs"
    /\ UNCHANGED <<max_goals, row_pmf, col_pmf, matrix, market>>
    /\ UNCHANGED <<pipeVars, statVars, intVars>>

\* the dictionary predict_markets builds from matrix and p
DeriveMarkets ==
    /\ mk_pc = "probs"
    /\ market' = MarketsFrom(matrix, p)
    /\ mk_pc' = "predicted"
    /\ UNCHANGED <<max_goals, row_pmf, col_pmf, matrix, p>>
    /\ UNCHANGED <<pipeVars, statVars, intVars>>

\* predictions = predict_markets(...), then render_template
IndexRender ==
    /\ pc = "markets"
    /\ mk_pc = "predicted"
    /\ predictions' = [kind |-> "populated", value |-> <<market>>]
    /\ pc' = "rendered"
    /\ UNCHANGED <<api_token, api_db, method, home_team, away_team, home_logo, away_logo,
                   home_matches, away_matches, historical_matches, home_stats,
                   away_stats, error>>
    /\ UNCHANGED <<statVars, intVars, mktVars>>

Next ==
    \/ IndexGet
    \/ IndexPostRejected
    \/ IndexPostKnown
    \/ IndexStats
    \/ PredictEstimate
    \/ PredictScoreMatrix
    \/ ComputeProbs
    \/ DeriveMarkets
    \/ IndexRender

Spec == Init /\ [][Next]_vars

\* ------------------------------------------------------------------------
\* The Match Filter on its own: get_relevant_matches for Arsenal v Chelsea
\* ------------------------------------------------------------------------
\* the kinds of fixture the data source of these runs can hold
FilterKinds ==
    {<<57, 61, "LEAGUE">>, <<61, 57, "CUP">>, <<57, 64, "LEAGUE">>,
     <<64, 61, "LEAGUE">>, <<57, 61, "FRIENDLY">>}

FilterDbs ==
    {[i \in 1..FilterMatches |-> MkMatch(i, k[i][1], k[i][2], k[i][3], 1, 0, 0, 0)] :
        k \in [1..FilterMatches -> FilterKinds]}

InitFilter ==
    /\ pc = "filter_call"
    /\ api_token = TRUE
    /\ api_db \in FilterDbs
    /\ method = ""
    /\ home_team = "Arsenal" /\ away_team = "Chelsea"
    /\ home_logo = "" /\ away_logo = ""
    /\ home_matches = <<>> /\ away_matches = <<>> /\ historical_matches = <<>>
    /\ home_stats = <<>> /\ away_stats = <<>>
    /\ predictions = NoPrediction
    /\ error = ""
    /\ StatOff /\ IntOff /\ MktOff

\* home_matches = get_team_matches(...); away_matches = get_team_matches(...)
FilterFetch ==
    /\ pc = "filter_call"
    /\ \E okH \in BOOLEAN, okA \in BOOLEAN :
        /\ home_matches' = GetTeamMatches(okH, api_db, TEAM_IDS[home_team])
        /\ away_matches' = GetTeamMatches(okA, api_db, TEAM_IDS[away_team])
    /\ pc' = "fetched"
    /\ UNCHANGED <<api_token, api_db, method, home_team, away_team, home_logo, away_logo,
                   historical_matches, home_stats, away_stats, predictions, error>>
    /\ UNCHANGED <<statVars, intVars, mktVars>>

\* the head-to-head selection and the deduplication loop
FilterSelect ==
    /\ pc = "fetched"
    /\ historical_matches' = RelevantFrom(home_matches, away_matches,
                                          TEAM_IDS[home_team], TEAM_IDS[away_team])
    /\ pc' = "filtered"
    /\ UNCHANGED <<api_token, api_db, method, home_team, away_team, home_logo, away_logo,
                   home_matches, away_matches, home_stats, away_stats, predictions,
                   error>>
    /\ UNCHANGED <<statVars, intVars, mktVars>>

NextFilter == FilterFetch \/ FilterSelect

SpecFilter == InitFilter /\ [][NextFilter]_vars

\* ------------------------------------------------------------------------
\* The Team Stat Aggregator on its own: one call of get_team_stats.  The list
\* is read once, front to back, so the record at each position is drawn when
\* the loop reaches it.
\* ------------------------------------------------------------------------
\* bounds: the length of the list, the goals of a record
MaxLen == 2
MaxFullTime == 2
MaxHalfTime == 1

StatTeamIds == {57, 9999}

StatRecords ==
    {MkMatch(0, pr[1], pr[2], "LEAGUE", fh, fa, hh, ha) :
        pr \in {<<57, 61>>, <<61, 57>>, <<61, 64>>},
        fh \in {None, 0, 1, MaxFullTime}, fa \in {None, 0, 1, MaxFullTime},
        hh \in {None, 0, MaxHalfTime}, ha \in {None, 0, MaxHalfTime}}

InitStats ==
    /\ st_pc = "call"
    /\ team_id \in StatTeamIds
    /\ length \in 0..MaxLen
    /\ idx = 0
    /\ match = NoMatch
    /\ acc = ZeroAcc
    /\ stats = <<>>
    /\ appeared = 0
    /\ PipeOff /\ IntOff /\ MktOff

\* if not matches: return the all-zero dictionary
StatsEmpty ==
    /\ st_pc = "call"
    /\ length = 0
    /\ stats' = <<ZeroStats>>
    /\ st_pc' = "returned"
    /\ UNCHANGED <<team_id, length, idx, match, acc, appeared>>
    /\ UNCHANGED <<pipeVars, intVars, mktVars>>

\* for match in matches: the next record
StatsNextMatch ==
    /\ \/ st_pc = "call" /\ length > 0
       \/ st_pc = "loop"
    /\ idx < length
    /\ \E m \in StatRecords :
        /\ match' = m
        /\ appeared' = appeared + (IF team_id \in {m.homeTeam, m.awayTeam} THEN 1 ELSE 0)
    /\ idx' = idx + 1
    /\ st_pc' = "body"
    /\ UNCHANGED <<team_id, length, acc, stats>>
    /\ UNCHANGED <<pipeVars, intVars, mktVars>>

\* the body of the loop on the record held
StatsLoopBody ==
    /\ st_pc = "body"
    /\ acc' = StatsBody(acc, match, team_id)
    /\ st_pc' = "loop"
    /\ UNCHANGED <<team_id, length, idx, match, stats, appeared>>
    /\ UNCHANGED <<pipeVars, intVars, mktVars>>

\* after the loop: the guard on games and the rounded quotients
StatsReturn ==
    /\ st_pc = "loop"
    /\ idx = length
    /\ stats' = <<FinishStats(acc)>>
    /\ st_pc' = "returned"
    /\ UNCHANGED <<team_id, length, idx, match, acc, appeared>>
    /\ UNCHANGED <<pipeVars, intVars, mktVars>>

NextStats == StatsEmpty \/ StatsNextMatch \/ StatsLoopBody \/ StatsReturn

SpecStats == InitStats /\ [][NextStats]_vars

\* ------------------------------------------------------------------------
\* The Goal Intensity Estimator on its own
\* ------------------------------------------------------------------------
\* bound: the length of the list
MaxIntensityLen == 2

IntensityRecords ==
    {MkMatch(0, pr[1], pr[2], "LEAGUE", fh, fa, None, None) :
        pr \in {<<57, 61>>, <<61, 57>>, <<61, 64>>},
        fh \in {None, 1, 4}, fa \in {None, 1, 4}}

IntensityLists ==
    UNION {[1..n -> IntensityRecords] : n \in 0..MaxIntensityLen}

InitIntensity ==
    /\ in_pc = "call"
    /\ matches \in IntensityLists
    /\ \E names \in {<<"Arsenal", "Chelsea">>, <<"Chelsea", "Arsenal">>,
                     <<"Unknown FC", "Chelsea">>, <<"Arsenal", "Unknown FC">>} :
        /\ est_home = names[1]
        /\ est_away = names[2]
    /\ lambdas = <<>>
    /\ PipeOff /\ StatOff /\ MktOff

\* TEAM_IDS[home_team] or TEAM_IDS[away_team] raises KeyError
EstimateKeyError ==
    /\ in_pc = "call"
    /\ est_home \notin TeamNames \/ est_away \notin TeamNames
    /\ in_pc' = "KeyError"
    /\ UNCHANGED <<matches, est_home, est_away, lambdas>>
    /\ UNCHANGED <<pipeVars, statVars, mktVars>>

\* estimate_goal_intensities returns the pair
EstimateReturn ==
    /\ in_pc = "call"
    /\ est_home \in TeamNames /\ est_away \in TeamNames
    /\ lambdas' = EstimateGoalIntensities(est_home, est_away, matches)
    /\ in_pc' = "returned"
    /\ UNCHANGED <<matches, est_home, est_away>>
    /\ UNCHANGED <<pipeVars, statVars, mktVars>>

NextIntensity == EstimateKeyError \/ EstimateReturn

SpecIntensity == InitIntensity /\ [][NextIntensity]_vars

\* ------------------------------------------------------------------------
\* The Score Distribution Model and the Market Predictor on their own:
\* score_matrix on given pmf values, probs_from_matrix, the markets
\* ------------------------------------------------------------------------
\* bounds: the goal bound, and the mass unit of the pmf values that are given
MaxMarketGoals == 2
MassUnit == 6

\* the intensities whose Poisson values are among the given ones
SampleLambdas == {100, 1150, 3500}

\* pmf values for 0..goal_bound goals: positive, summing to at most 1
GivenRows(goal_bound) ==
    {[mass |-> r, unit |-> MassUnit] :
        r \in {q \in [1..(goal_bound + 1) -> 1..MassUnit] : SeqSum(q) <= MassUnit}}

InitMarket ==
    /\ mk_pc = "call"
    /\ max_goals \in -1..MaxMarketGoals
    /\ \/ /\ row_pmf \in GivenRows(max_goals)
          /\ col_pmf \in GivenRows(max_goals)
       \/ /\ row_pmf \in {PoissonRow(l, max_goals) : l \in SampleLambdas}
          /\ col_pmf \in {PoissonRow(l, max_goals) : l \in SampleLambdas}
    /\ matrix = EmptyMatrix
    /\ p = <<>>
    /\ market = <<>>
    /\ PipeOff /\ StatOff /\ IntOff

\* score_matrix: the two loops over range(0, max_goals + 1)
BuildScoreMatrix ==
    /\ mk_pc = "call"
    /\ matrix' = ScoreMatrixOf(row_pmf, col_pmf)
    /\ mk_pc' = "matrix"
    /\ UNCHANGED <<max_goals, row_pmf, col_pmf, p, market>>
    /\ UNCHANGED <<pipeVars, statVars, intVars>>

NextMarket == BuildScoreMatrix \/ ComputeProbs \/ DeriveMarkets

SpecMarket == InitMarket /\ [][NextMarket]_vars

\* ------------------------------------------------------------------------
\* Properties
\* ------------------------------------------------------------------------
\* the request named two distinct teams of TEAM_IDS
KnownPairRequest ==
    /\ method = "POST"
    /\ home_team \in TeamNames /\ away_team \in TeamNames
    /\ home_team # away_team

\* C1: a request for two distinct known teams is answered with the "no data"
\* sentinel exactly when the filtered match list is empty, and then neither
\* statistics nor a market prediction were computed; with a non-empty list the
\* answer is a populated prediction with the statistics of both teams.
C1_NoDataIffEmptyHistory ==
    (pc = "rendered" /\ KnownPairRequest) =>
        /\ (predictions.kind = "no_data") <=> (historical_matches = <<>>)
        /\ historical_matches = <<>> =>
              /\ home_stats = <<>> /\ away_stats = <<>>
              /\ predictions.value = <<>>
              /\ lambdas = <<>> /\ mk_pc = "off" /\ market = <<>>
        /\ historical_matches # <<>> =>
              /\ predictions.kind = "populated"
              /\ predictions.value = <<market>>
              /\ market # <<>>
              /\ home_stats = <<GetTeamStats(historical_matches, TEAM_IDS[home_team])>>
              /\ away_stats = <<GetTeamStats(historical_matches, TEAM_IDS[away_team])>>

\* the source held fixtures of the teams, yet the filtered list came out empty
C1_Witness ==
    /\ pc = "rendered" /\ KnownPairRequest
    /\ predictions.kind = "no_data"
    /\ \E i \in DOMAIN api_db : api_db[i].homeTeam = TEAM_IDS[home_team]

\* the ids of the records of a sequence
IdsOf(ms) == {ms[k].id : k \in DOMAIN ms}

\* the position of the record with this id in a sequence that has it
IndexOfId(ms, id) == CHOOSE k \in DOMAIN ms : ms[k].id = id

\* a fixture between the two teams of the request, in either direction
IsHeadToHead(m) ==
    {m.homeTeam, m.awayTeam} = {TEAM_IDS[home_team], TEAM_IDS[away_team]}

\* the head-to-head records the home team's list holds
SelectedIds ==
    {m.id : m \in {x \in {home_matches[k] : k \in DOMAIN home_matches} : IsHeadToHead(x)}}

RecentHomeIds == IdsOf(Take(home_matches, RecentCount))
RecentAwayIds == IdsOf(Take(away_matches, RecentCount))

\* where a retained record was first seen: <<block, direction, position>>
SeenKey(m) ==
    IF m.id \in SelectedIds
    THEN <<0, IF m.homeTeam = TEAM_IDS[home_team] THEN 0 ELSE 1,
           IndexOfId(home_matches, m.id)>>
    ELSE IF m.id \in RecentHomeIds
    THEN <<1, 0, IndexOfId(home_matches, m.id)>>
    ELSE <<2, 0, IndexOfId(away_matches, m.id)>>

KeyBefore(a, b) ==
    \/ a[1] < b[1]
    \/ a[1] = b[1] /\ a[2] < b[2]
    \/ a[1] = b[1] /\ a[2] = b[2] /\ a[3] < b[3]

\* the output is the first-seen-order deduplication of
\* [head-to-head of the home list] ++ [home 5 most recent] ++ [away 5 most recent]
FirstSeenDedup ==
    /\ \A k, l \in DOMAIN historical_matches :
          k # l => historical_matches[k].id # historical_matches[l].id
    /\ IdsOf(historical_matches) = SelectedIds \cup RecentHomeIds \cup RecentAwayIds
    /\ \A k \in DOMAIN historical_matches :
          historical_matches[k] \in
              {home_matches[i] : i \in DOMAIN home_matches}
                  \cup {away_matches[i] : i \in DOMAIN away_matches}
    /\ \A k, l \in DOMAIN historical_matches :
          k < l => KeyBefore(SeenKey(historical_matches[k]), SeenKey(historical_matches[l]))

\* C2 (as amended): the output of get_relevant_matches has no two records with
\* the same id and is the first-seen-order deduplication of [head-to-head
\* records of the home team's list] ++ [home 5 most recent] ++ [away 5 most
\* recent]; every head-to-head record taken from the home team's list precedes
\* every other record.
C2_FirstSeenDedup ==
    pc = "filtered" =>
        /\ FirstSeenDedup
        /\ \A k, l \in DOMAIN historical_matches :
              (historical_matches[l].id \in SelectedIds
                 /\ historical_matches[k].id \notin SelectedIds) => l < k

\* C2 (as claimed): ... and every head-to-head record precedes every record
\* that is not head-to-head.
C2_HeadToHeadAlwaysFirst ==
    pc = "filtered" =>
        /\ FirstSeenDedup
        /\ \A k, l \in DOMAIN historical_matches :
              (IsHeadToHead(historical_matches[l])
                 /\ ~IsHeadToHead(historical_matches[k])) => l < k

\* more than five fetched for the home team, the oldest of them head-to-head
\* in the reverse direction, duplicates dropped, both kinds of record retained
C2_Witness ==
    /\ pc = "filtered"
    /\ Len(home_matches) > RecentCount
    /\ home_matches[Len(home_matches)].homeTeam = TEAM_IDS[away_team]
    /\ home_matches[Len(home_matches)].id \in IdsOf(historical_matches)
    /\ Len(away_matches) > 0
    /\ Len(historical_matches) <
          Len(FilterCandidates(home_matches, away_matches,
                               TEAM_IDS[home_team], TEAM_IDS[away_team]))
    /\ \E k, l \in DOMAIN historical_matches :
          /\ IsHeadToHead(historical_matches[k])
          /\ ~IsHeadToHead(historical_matches[l])

\* the five fields of a returned dictionary
StatFields ==
    {"goals_avg_scored", "goals_avg_conceded", "half_time_win_rate",
     "second_half_win_rate", "both_teams_score_rate"}

\* C3: get_team_stats returns the three rates within [0, 1] and the two goal
\* averages >= 0; no win or both-teams-scored counter exceeds the number of
\* matches the team appeared in, which is the divisor; and all five fields are
\* exactly 0 when the team appears in none of the matches.
C3_StatsInRange ==
    /\ st_pc \in {"loop", "returned"} =>
          /\ acc.games = appeared
          /\ acc.half_time_wins <= appeared
          /\ acc.second_half_wins <= appeared
          /\ acc.both_teams_score <= appeared
    /\ st_pc = "returned" =>
          /\ stats[1].half_time_win_rate \in 0..1000
          /\ stats[1].second_half_win_rate \in 0..1000
          /\ stats[1].both_teams_score_rate \in 0..1000
          /\ stats[1].goals_avg_scored >= 0
          /\ stats[1].goals_avg_conceded >= 0
          /\ appeared = 0 => \A f \in StatFields : stats[1][f] = 0
          /\ appeared > 0 =>
                /\ stats[1].half_time_win_rate
                      = RoundScaled(acc.half_time_wins, appeared, 3)
                /\ stats[1].both_teams_score_rate
                      = RoundScaled(acc.both_teams_score, appeared, 3)
                /\ stats[1].goals_avg_scored = RoundScaled(acc.goals_scored, appeared, 3)

\* a non-empty list in which the team never appears, both sides having scored
C3_Witness ==
    /\ st_pc = "returned"
    /\ idx = length /\ length > 0
    /\ appeared = 0
    /\ OrZero(match.ftHome) > 0 /\ OrZero(match.ftAway) > 0
    /\ stats = <<ZeroStats>>

\* the second-half goals of the two sides, as the specification states them
OwnSecondHalf(m, t) ==
    IF m.homeTeam = t
    THEN Max(0, (IF m.ftHome = None THEN 0 ELSE m.ftHome)
                  - (IF m.htHome = None THEN 0 ELSE m.htHome))
    ELSE Max(0, (IF m.ftAway = None THEN 0 ELSE m.ftAway)
                  - (IF m.htAway = None THEN 0 ELSE m.htAway))
OpponentSecondHalf(m, t) ==
    IF m.homeTeam = t
    THEN Max(0, (IF m.ftAway = None THEN 0 ELSE m.ftAway)
                  - (IF m.htAway = None THEN 0 ELSE m.htAway))
    ELSE Max(0, (IF m.ftHome = None THEN 0 ELSE m.ftHome)
                  - (IF m.htHome = None THEN 0 ELSE m.htHome))

\* C8: for a match the team appears in, on either side, the loop adds exactly
\* one second-half-win credit iff the team's own second-half goals are strictly
\* greater than the opponent's, and none otherwise.
C8_SecondHalfCredit ==
    [][(st_pc = "body" /\ st_pc' = "loop"
          /\ team_id \in {match.homeTeam, match.awayTeam}) =>
         acc'.second_half_wins - acc.second_half_wins =
            (IF OwnSecondHalf(match, team_id) > OpponentSecondHalf(match, team_id)
             THEN 1 ELSE 0)]_vars

\* full time 2-1 after 0-0 at half time, seen from the away side: no credit,
\* after a match the away side won the second half of
C8_Witness ==
    /\ st_pc = "loop"
    /\ idx = 2
    /\ team_id = match.awayTeam
    /\ match.ftHome = 2 /\ match.ftAway = 1 /\ match.htHome = 0 /\ match.htAway = 0
    /\ acc.second_half_wins = 1
    /\ acc.games = 2

\* max(0.1, min(3.5, x)) as the specification states it, in thousandths
ClaimedClamp(x) == IF x < 100 THEN 100 ELSE IF x > 3500 THEN 3500 ELSE x

\* C4: estimate_goal_intensities returns
\* lambda_home = clamp(home average goals scored + 0.15, 0.1, 3.5) and
\* lambda_away = clamp(away average goals scored, 0.1, 3.5), both in [0.1, 3.5].
C4_IntensitiesClamped ==
    in_pc = "returned" =>
        /\ lambdas[1] \in 100..3500
        /\ lambdas[2] \in 100..3500
        /\ lambdas[1] =
              ClaimedClamp(GetTeamStats(matches, TEAM_IDS[est_home]).goals_avg_scored + 150)
        /\ lambdas[2] =
              ClaimedClamp(GetTeamStats(matches, TEAM_IDS[est_away]).goals_avg_scored)

\* a non-empty list: the home side above the upper bound, the away side absent
C4_Witness ==
    /\ in_pc = "returned"
    /\ matches # <<>>
    /\ \A k \in DOMAIN matches :
          TEAM_IDS[est_away] \notin {matches[k].homeTeam, matches[k].awayTeam}
    /\ GetTeamStats(matches, TEAM_IDS[est_home]).goals_avg_scored > 3350
    /\ lambdas = <<3500, 100>>

\* the total mass the 1X2 probabilities are normalized by
TotalMass(rows) == HomeMass(rows) + DrawMass(rows) + AwayMass(rows)

\* C5: the over/under 2.5 label is decided on the over-2.5 mass normalized by
\* the total mass that normalizes the 1X2 probabilities: "over" iff
\* over mass / total mass (to 4 decimals, as every probability) >= 0.5.
C5_OverUnderOnNormalizedMass ==
    (mk_pc = "predicted" /\ TotalMass(matrix.rows) > 0) =>
        ((market.over_under = "Plus de 2.5 buts")
            <=> (RoundScaled(OverMass(matrix.rows), TotalMass(matrix.rows), 4) >= 5000))

\* sum over all cells of (i + j) * cell(i, j), in cell units
RECURSIVE CombinedGoalsRow(_, _, _)
CombinedGoalsRow(row, i, j) ==
    IF j >= Len(row) THEN 0
    ELSE (i + j) * row[j + 1] + CombinedGoalsRow(row, i, j + 1)

RECURSIVE CombinedGoalsMass(_, _)
CombinedGoalsMass(rows, i) ==
    IF i >= Len(rows) THEN 0
    ELSE CombinedGoalsRow(rows[i + 1], i, 0) + CombinedGoalsMass(rows, i + 1)

\* C6: the "goals" field is the matrix-implied expected combined goals of both
\* sides, the sum over all cells of (i + j) * cell(i, j), rounded to 2 decimals.
C6_GoalsIsCombinedExpectation ==
    mk_pc = "predicted" =>
        market.goals = RoundScaled(CombinedGoalsMass(matrix.rows, 0), matrix.unit, 2)

\* C7: the 1X2 pick is the argmax of the three normalized probabilities, ties
\* broken in the order 1, X, 2.
C7_ResultIsFirstArgmax ==
    mk_pc = "predicted" =>
        /\ (market.result = "1") <=> (p["1"] >= p["X"] /\ p["1"] >= p["2"])
        /\ (market.result = "X") <=> (p["X"] > p["1"] /\ p["X"] >= p["2"])
        /\ (market.result = "2") <=> (p["2"] > p["1"] /\ p["2"] > p["X"])
        /\ market.result \in {"1", "X", "2"}

\* a draw as likely as an away win and likelier than a home win: X is picked
C7_Witness ==
    /\ mk_pc = "predicted"
    /\ p["X"] = p["2"] /\ p["X"] > p["1"]
    /\ market.result = "X"

\* C10: the double-chance pick always covers the outcome picked for 1X2.
C10_DoubleChanceCoversResult ==
    mk_pc = "predicted" =>
        /\ market.result = "1" => market.double_chance \in {"1X", "12"}
        /\ market.result = "X" => market.double_chance \in {"1X", "X2"}
        /\ market.result = "2" => market.double_chance \in {"X2", "12"}
        /\ market.double_chance \in {"1X", "X2", "12"}

\* home win and away win equally likely and likelier than the draw
C10_Witness ==
    /\ mk_pc = "predicted"
    /\ p["1"] = p["2"] /\ p["1"] > p["X"]
    /\ market.result = "1"
    /\ market.double_chance = "12"

\* C9: a call with a team identifier outside the known teams, or with a goal
\* bound out of range, ends in a reported precondition violation: it never
\* returns statistics, intensities, a matrix or a prediction.
C9_ProgrammerErrorsFailFast ==
    /\ st_pc = "returned" => team_id \in KnownTeamIds
    /\ in_pc = "returned" => (est_home \in TeamNames /\ est_away \in TeamNames)
    /\ mk_pc \in {"matrix", "probs", "predicted"} => max_goals >= 0

====
